---- MODULE Spec2Model ----
(***************************************************************************)
(* Model of the document processing pipeline of the OCR/TTS backend:       *)
(*   - ChunkingService  (chunking.service.ts): preprocessText,             *)
(*     splitIntoChunks, findBreakPoint, findSentenceBreak                  *)
(*   - OCRService       (ocr.service.ts): processPDF page loop             *)
(*   - DocumentService  (document.service.ts): startOCRProcessing,         *)
(*     processDocument, chunkText, reprocessDocument                       *)
(* Offsets into a text are 0-based as in the source; a text is a sequence  *)
(* of one-character strings.                                               *)
(***************************************************************************)
EXTENDS Integers, Sequences, FiniteSets, TLC

\* ------------------------------------------------------------------------
\* Bounds of the model
\* ------------------------------------------------------------------------
MaxLen == 5
MaxInputLen == 6
MaxChunkSize == 3
MaxOverlap == 3
MaxJobs == 2
MaxPages == 3
MaxCalls == 2
MaxOcrPages == 2

\* ------------------------------------------------------------------------
\* Characters and JavaScript string primitives
\* ------------------------------------------------------------------------
Alphabet == {"a", "A", ".", " ", "\n"}

IsWs(c) == c \in {" ", "\n", "\r", "\t"}

IsPunct(c) == c \in {".", "!", "?"}

IsUpper(c) ==
  c \in {"A", "B", "C", "D", "E", "F", "G", "H", "I", "J", "K", "L", "M",
         "N", "O", "P", "Q", "R", "S", "T", "U", "V", "W", "X", "Y", "Z"}

Min(a, b) == IF a < b THEN a ELSE b

Max(a, b) == IF a > b THEN a ELSE b

SetMax(S) == CHOOSE x \in S : \A y \in S : y <= x

Clamp(x, lo, hi) == Max(lo, Min(x, hi))

CharAt(t, i) == t[i + 1]

Range(f) == {f[i] : i \in DOMAIN f}

\* String.prototype.substring: both indices clamped to [0, length], swapped
\* when the first exceeds the second.
Substring(t, a, b) ==
  LET ca == Clamp(a, 0, Len(t))
      cb == Clamp(b, 0, Len(t))
  IN  SubSeq(t, Min(ca, cb) + 1, Max(ca, cb))

RECURSIVE LTrimIdx(_, _)
LTrimIdx(s, i) ==
  IF i > Len(s) \/ ~IsWs(s[i]) THEN i ELSE LTrimIdx(s, i + 1)

RECURSIVE RTrimIdx(_, _)
RTrimIdx(s, i) ==
  IF i < 1 \/ ~IsWs(s[i]) THEN i ELSE RTrimIdx(s, i - 1)

\* String.prototype.trim
Trim(s) == SubSeq(s, LTrimIdx(s, 1), RTrimIdx(s, Len(s)))

\* String.prototype.lastIndexOf(pat, pos): the largest index k <= pos at
\* which pat occurs, -1 when there is none; pos is clamped to
\* [0, length - |pat|].
LastIndexOf(t, pat, pos) ==
  LET m == Len(pat)
      hi == Min(Max(pos, 0), Len(t) - m)
      C == {k \in 0..hi : SubSeq(t, k + 1, k + m) = pat}
  IN  IF C = {} THEN 0 - 1 ELSE SetMax(C)

\* ------------------------------------------------------------------------
\* ChunkingService.preprocessText: four replace/trim passes, in order
\* ------------------------------------------------------------------------
\* .replace(/\r\n/g, '\n')
RECURSIVE NormalizeLineEndings(_)
NormalizeLineEndings(t) ==
  IF t = <<>> THEN <<>>
  ELSE IF Len(t) >= 2 /\ t[1] = "\r" /\ t[2] = "\n"
       THEN <<"\n">> \o NormalizeLineEndings(SubSeq(t, 3, Len(t)))
       ELSE <<t[1]>> \o NormalizeLineEndings(Tail(t))

\* length of the run of characters satisfying a class test at the head of t
RECURSIVE NewlineRun(_)
NewlineRun(t) ==
  IF t # <<>> /\ t[1] = "\n" THEN 1 + NewlineRun(Tail(t)) ELSE 0

RECURSIVE WsRun(_, _)
WsRun(t, i) ==
  IF i < Len(t) /\ IsWs(CharAt(t, i)) THEN 1 + WsRun(t, i + 1) ELSE 0

\* .replace(/\n{3,}/g, '\n\n')
RECURSIVE NormalizeParagraphBreaks(_)
NormalizeParagraphBreaks(t) ==
  IF t = <<>> THEN <<>>
  ELSE LET n == NewlineRun(t)
       IN  IF n >= 3
           THEN <<"\n", "\n">> \o NormalizeParagraphBreaks(SubSeq(t, n + 1, Len(t)))
           ELSE <<t[1]>> \o NormalizeParagraphBreaks(Tail(t))

\* .replace(/\s+/g, ' ')
RECURSIVE NormalizeWhitespace(_)
NormalizeWhitespace(t) ==
  IF t = <<>> THEN <<>>
  ELSE LET n == WsRun(t, 0)
       IN  IF n >= 1
           THEN <<" ">> \o NormalizeWhitespace(SubSeq(t, n + 1, Len(t)))
           ELSE <<t[1]>> \o NormalizeWhitespace(Tail(t))

preprocessText(t) ==
  Trim(NormalizeWhitespace(NormalizeParagraphBreaks(NormalizeLineEndings(t))))

\* ------------------------------------------------------------------------
\* ChunkingService.findSentenceBreak / findBreakPoint / splitIntoChunks
\* ------------------------------------------------------------------------
\* /[.!?]\s+[A-Z]/ matches at index i: punctuation at i, a maximal run of
\* at least one whitespace character, then an upper-case letter (the run is
\* maximal because the letter that ends it is no whitespace).
SentenceMatchAt(t, i) ==
  /\ i >= 0
  /\ i < Len(t)
  /\ IsPunct(CharAt(t, i))
  /\ LET n == WsRun(t, i + 1)
     IN  /\ n >= 1
         /\ i + 1 + n < Len(t)
         /\ IsUpper(CharAt(t, i + 1 + n))

\* The exec loop visits the matches at or after lastIndex = start in
\* increasing order and stops at the first whose index exceeds end; matches
\* cannot overlap (a match holds no punctuation after its first character).
\* The value kept is the last visited index + 1, or start.
findSentenceBreak(t, start, end) ==
  LET M == {i \in start..end : SentenceMatchAt(t, i)}
  IN  IF M = {} THEN start ELSE SetMax(M) + 1

findBreakPoint(t, start, end, pSent, pPara) ==
  LET paragraphBreak == LastIndexOf(t, <<"\n", "\n">>, end)
      sentenceBreak == findSentenceBreak(t, start, end)
      wordBreak == LastIndexOf(t, <<" ">>, end)
  IN  IF pPara /\ paragraphBreak > start THEN paragraphBreak
      ELSE IF pSent /\ sentenceBreak > start THEN sentenceBreak
      ELSE IF wordBreak > start THEN wordBreak
      ELSE end

\* end of the window that starts at start (splitIntoChunks, loop body)
WindowEnd(t, start, cs, pSent, pPara) ==
  LET end == Min(start + cs, Len(t))
  IN  IF end < Len(t) THEN findBreakPoint(t, start, end, pSent, pPara) ELSE end

\* slips of the cursor advance: one character too far back, one too far on
NextStart_back(start, end, ov) == Max(start + 1, end - ov - 1)

NextStart_gap(start, end, ov) == Max(start + 1, end - ov + 1)

\* the advance without the step forward of at least one character
NextStart_stuck(start, end, ov) == Max(start, end - ov)

\* start = Math.max(start + 1, end - chunkOverlap)
NextStart(start, end, ov) == Max(start + 1, end - ov)

\* one pass of the while loop of splitIntoChunks
LoopBody(t, start, cs, ov, pSent, pPara) ==
  LET end == WindowEnd(t, start, cs, pSent, pPara)
  IN  [end |-> end,
       chunk |-> Trim(Substring(t, start, end)),
       next |-> NextStart(start, end, ov)]

RECURSIVE splitIntoChunks(_, _, _, _, _, _)
splitIntoChunks(t, start, cs, ov, pSent, pPara) ==
  IF start < Len(t)
  THEN LET b == LoopBody(t, start, cs, ov, pSent, pPara)
       IN  (IF b.chunk # <<>> THEN <<b.chunk>> ELSE <<>>)
             \o splitIntoChunks(t, b.next, cs, ov, pSent, pPara)
  ELSE <<>>


\* ChunkingService.chunkText: preprocess, split, index the chunks by
\* position; preserveSentences and preserveParagraphs default to true
chunkText(t, cs, ov) ==
  LET parts == splitIntoChunks(preprocessText(t), 0, cs, ov, TRUE, TRUE)
  IN  [i \in 1..Len(parts) |-> [chunkIndex |-> i - 1, content |-> parts[i]]]

\* ------------------------------------------------------------------------
\* OCRService: extraction of a stored source
\* ------------------------------------------------------------------------
\* what recognition yields for page p of a source (words, confidence)
PageText(p) == <<"A", ".">>

PageConfidence(p) == IF p = 2 THEN 0 ELSE IF p = 3 THEN 80 ELSE 90

OCRResult(p) == [text |-> Trim(PageText(p)), confidence |-> PageConfidence(p), pageNumber |-> p]

\* pages the loop of processPDF keeps when recognition throws on page k
\* (k = 0: on no page): the catch inside the loop ends the loop
PagesKept(n, k) == IF k \in 1..n THEN 1..(k - 1) ELSE 1..n

\* OCRService.processPDF on a source of n pages: the results pushed before
\* the loop ends
processPDF(n, k) == [p \in PagesKept(n, k) |-> OCRResult(p)]

\* ------------------------------------------------------------------------
\* Persistence: DocumentModel and ProcessingJobModel updates
\* ------------------------------------------------------------------------
\* An optional value is the empty set (null, undefined) or a singleton.
Null == {}

Undefined == {}

Some(x) == {x}

The(v) == CHOOSE x \in v : TRUE

\* JavaScript a || b on an optional number a
OrDefault(v, d) == IF v = Undefined \/ v = Some(0) THEN d ELSE The(v)

DocStatuses ==
  {"UPLOADED", "QUEUED", "PROCESSING", "EXTRACTING_TEXT", "CHUNKING",
   "COMPLETED", "FAILED", "CANCELLED"}

TerminalStatuses == {"COMPLETED", "FAILED", "CANCELLED"}

\* DocumentModel.updateStatus
DocUpdateStatus(doc, status) ==
  [doc EXCEPT !.status = status,
              !.processedAt = IF status = "COMPLETED" THEN Some("now") ELSE Null]

\* the update without the spread of the error option
JobUpdateStatus_noError(job, status, progress, error) ==
  [job EXCEPT !.status = status,
              !.progress = IF status = "COMPLETED" THEN 100
                           ELSE IF progress # Undefined THEN The(progress)
                           ELSE @]

\* the update without the progress forced on COMPLETED
JobUpdateStatus_noForce(job, status, progress, error) ==
  [job EXCEPT !.status = status,
              !.progress = IF progress # Undefined THEN The(progress) ELSE @,
              !.error = IF error # Undefined THEN error ELSE @]

\* ProcessingJobModel.updateStatus
JobUpdateStatus(job, status, progress, error) ==
  [job EXCEPT !.status = status,
              !.progress = IF status = "COMPLETED" THEN 100
                           ELSE IF progress # Undefined THEN The(progress)
                           ELSE @,
              !.error = IF error # Undefined THEN error ELSE @]

\* processDocument: the text and confidence aggregated from the OCR results
\* (sum / length, kept as the pair; 0 / 0 is NaN)
JoinPages(results) ==
  LET RECURSIVE J(_)
      J(i) == IF i > Len(results) THEN <<>>
              ELSE IF i = 1 THEN results[1].text \o J(2)
              ELSE <<"\n", "\n">> \o results[i].text \o J(i + 1)
  IN  J(1)

SumConfidence(results) ==
  LET RECURSIVE S(_)
      S(i) == IF i > Len(results) THEN 0 ELSE results[i].confidence + S(i + 1)
  IN  S(1)

AverageConfidence(results) ==
  [sum |-> SumConfidence(results), count |-> Len(results)]

\* startOCRProcessing: the metadata stored on the job
JobMetadata(opts) ==
  [enableChunking |-> IF opts.enableChunking = Undefined THEN FALSE
                      ELSE The(opts.enableChunking),
   chunkSize |-> OrDefault(opts.chunkSize, 1000),
   chunkOverlap |-> OrDefault(opts.chunkOverlap, 200)]

\* the insert without the unique key and skipDuplicates
CreateMany_noSkip(rows, newRows) == rows \cup Range(newRows)

\* TextChunkModel.createMany with skipDuplicates under the unique key
\* (documentId, chunkIndex): rows whose index is taken are skipped
CreateMany(rows, newRows) ==
  rows \cup {r \in Range(newRows) : \A q \in rows : q.chunkIndex # r.chunkIndex}

\* ------------------------------------------------------------------------
\* State
\* ------------------------------------------------------------------------
VARIABLES
  input,         \* chunkText: the text passed in
  text,          \* splitIntoChunks: the preprocessed text being split
  chunkSize,     \* splitIntoChunks: parameter
  chunkOverlap,  \* splitIntoChunks: parameter
  options,       \* splitIntoChunks: preserveSentences / preserveParagraphs
  start,         \* splitIntoChunks: loop cursor
  chunks,        \* splitIntoChunks: chunks pushed so far
  windows,       \* the [start, end) pairs the loop has visited, in order
  cpc,           \* position of chunkText: "idle", "preprocess", "loop" or "done"
  source,        \* stored file of each document: mime type and page count
  documents,     \* Document rows: status, extractedText, ocrConfidence, processedAt
  textChunks,    \* TextChunk rows of each document
  jobs,          \* ProcessingJob rows, in creation order (the index is the id)
  pc,            \* position of the invocation that serves each job
  locals,        \* locals of processDocument for each job
  cancelled,     \* jobs whose cancellation the cancel route has acknowledged
  tempDir,       \* OCRService: whether the directory temp/ocr exists
  tempFiles,     \* OCRService: the files in temp/ocr
  worker,        \* OCRService: language the worker is initialized with, or Null
  calls          \* OCRService: the extractTextFromBuffer calls

chunkVars == <<input, text, chunkSize, chunkOverlap, options, start, chunks, windows, cpc>>

ocrVars == <<tempDir, tempFiles, worker, calls>>

dbVars == <<source, documents, textChunks, jobs, pc, locals, cancelled>>

pipeVars == <<source, documents, textChunks, jobs, pc, locals, cancelled,
              tempDir, tempFiles, worker, calls>>

vars == <<input, text, chunkSize, chunkOverlap, options, start, chunks, windows, cpc,
          source, documents, textChunks, jobs, pc, locals, cancelled,
          tempDir, tempFiles, worker, calls>>

Docs == {"d1"}

OcrCalls == 1..MaxCalls

\* a call that was not made yet
NoCall ==
  [pc |-> "idle", language |-> {}, pages |-> 0, tempFile |-> <<>>, pageNumber |-> 0,
   imagePath |-> <<>>, results |-> <<>>, faults |-> {}, outcome |-> "none"]

\* the OCRService just constructed: initializeWorker has not completed, no
\* call was made, temp/ocr does not exist
OcrIdle ==
  /\ tempDir = FALSE
  /\ tempFiles = {}
  /\ worker = {}
  /\ calls = [c \in OcrCalls |-> NoCall]

\* the pipeline at rest: the documents uploaded, no job created
PipelineIdle ==
  /\ source = [d \in Docs |-> [mimeType |-> "application/pdf", pages |-> 1]]
  /\ documents = [d \in Docs |-> [status |-> "UPLOADED", extractedText |-> Null,
                                  ocrConfidence |-> Null, processedAt |-> Null]]
  /\ textChunks = [d \in Docs |-> {}]
  /\ jobs = <<>>
  /\ pc = <<>>
  /\ locals = <<>>
  /\ cancelled = {}
  /\ OcrIdle

\* ------------------------------------------------------------------------
\* Specification of the split loop
\* ------------------------------------------------------------------------
RawTexts == UNION {[1..n -> Alphabet] : n \in 0..MaxLen}

PreprocessedTexts == {preprocessText(r) : r \in RawTexts}

ValidConfig == chunkSize > 0 /\ chunkOverlap >= 0 /\ chunkOverlap < chunkSize

InitSplit ==
  /\ text \in PreprocessedTexts
  /\ input = text
  /\ chunkSize \in (0 - 1)..MaxChunkSize
  /\ chunkOverlap \in 0..MaxOverlap
  /\ options \in [preserveSentences : BOOLEAN, preserveParagraphs : BOOLEAN]
  /\ start = 0
  /\ chunks = <<>>
  /\ windows = <<>>
  /\ cpc = "loop"
  /\ PipelineIdle

SplitStep ==
  /\ cpc = "loop"
  /\ start < Len(text)
  /\ LET b == LoopBody(text, start, chunkSize, chunkOverlap,
                       options.preserveSentences, options.preserveParagraphs)
     IN  /\ windows' = Append(windows, <<start, b.end>>)
         /\ chunks' = IF b.chunk # <<>> THEN Append(chunks, b.chunk) ELSE chunks
         /\ start' = b.next
  /\ UNCHANGED <<input, text, chunkSize, chunkOverlap, options, cpc>>
  /\ UNCHANGED pipeVars

SplitReturn ==
  /\ cpc = "loop"
  /\ start >= Len(text)
  /\ cpc' = "done"
  /\ UNCHANGED <<input, text, chunkSize, chunkOverlap, options, start, chunks, windows>>
  /\ UNCHANGED pipeVars

NextSplit == SplitStep \/ SplitReturn

SpecSplit == InitSplit /\ [][NextSplit]_vars

\* the texts passed to chunkText
RawInputs == UNION {[1..n -> Alphabet] : n \in 0..MaxInputLen}

\* chunkText on a text as it is passed in: preprocessText, then the loop
InitChunkText ==
  /\ input \in RawInputs
  /\ text = <<>>
  /\ chunkSize \in 1..MaxChunkSize
  /\ chunkOverlap \in 0..MaxOverlap
  /\ ValidConfig
  /\ options \in [preserveSentences : BOOLEAN, preserveParagraphs : BOOLEAN]
  /\ start = 0
  /\ chunks = <<>>
  /\ windows = <<>>
  /\ cpc = "preprocess"
  /\ PipelineIdle

\* const processedText = this.preprocessText(text)
Preprocess ==
  /\ cpc = "preprocess"
  /\ text' = preprocessText(input)
  /\ cpc' = "loop"
  /\ UNCHANGED <<input, chunkSize, chunkOverlap, options, start, chunks, windows>>
  /\ UNCHANGED pipeVars

NextChunkText == Preprocess \/ SplitStep \/ SplitReturn

SpecChunkText == InitChunkText /\ [][NextChunkText]_vars

\* Scenario A of the specification: a text of 2400 characters without
\* paragraph breaks, chunkSize 1000, overlap 50, preserveSentences
ScenarioUnits ==
  { <<"a">>,
    <<"a", "a", "a", " ">>,
    <<"A", "a", "a", "a", ".", " ">>,
    <<"A", "a", "a", " ", "a", "a", ".", " ">>,
    <<"a", "a", "a", "a", "a", "a", "a", "a", "a", " ">> }

\* the unit repeated up to 2400 characters, closed by a letter
ScenarioText(u) ==
  [i \in 1..2400 |-> IF i = 2400 THEN "a" ELSE u[((i - 1) % Len(u)) + 1]]

InitScenarioA ==
  /\ text \in {ScenarioText(u) : u \in ScenarioUnits}
  /\ input = text
  /\ chunkSize = 1000
  /\ chunkOverlap = 50
  /\ options \in [preserveSentences : {TRUE}, preserveParagraphs : BOOLEAN]
  /\ start = 0
  /\ chunks = <<>>
  /\ windows = <<>>
  /\ cpc = "loop"
  /\ PipelineIdle

SpecScenarioA == InitScenarioA /\ [][NextSplit]_vars


\* ------------------------------------------------------------------------
\* Specification of the pipeline (DocumentService)
\* ------------------------------------------------------------------------
Sources ==
  {[mimeType |-> "application/pdf", pages |-> n] : n \in 0..MaxPages}
    \cup {[mimeType |-> "image/png", pages |-> 1]}

\* options a caller passes to startOCRProcessing
UploadOptions ==
  {[enableChunking |-> Some(FALSE), chunkSize |-> Undefined, chunkOverlap |-> Undefined],
   [enableChunking |-> Some(TRUE), chunkSize |-> Some(4), chunkOverlap |-> Some(0)]}

\* reprocessDocument calls startOCRProcessing(id) without options
DefaultOptions ==
  [enableChunking |-> Undefined, chunkSize |-> Undefined, chunkOverlap |-> Undefined]

Init ==
  /\ source \in [Docs -> Sources]
  /\ documents = [d \in Docs |-> [status |-> "UPLOADED", extractedText |-> Null,
                                  ocrConfidence |-> Null, processedAt |-> Null]]
  /\ textChunks = [d \in Docs |-> {}]
  /\ jobs = <<>>
  /\ pc = <<>>
  /\ locals = <<>>
  /\ cancelled = {}
  /\ OcrIdle
  /\ input = <<>>
  /\ text = <<>>
  /\ chunkSize = 0
  /\ chunkOverlap = 0
  /\ options = [preserveSentences |-> TRUE, preserveParagraphs |-> TRUE]
  /\ start = 0
  /\ chunks = <<>>
  /\ windows = <<>>
  /\ cpc = "idle"

JobIds == 1..Len(jobs)

DocOf(j) == jobs[j].documentId

\* positions at which an invocation has returned or died
EndedPcs == {"done", "aborted", "crashed"}

RunsInFlight(d) == {j \in JobIds : DocOf(j) = d /\ pc[j] \notin EndedPcs}

Goto(j, p) == pc' = [pc EXCEPT ![j] = p]

\* locals of processDocument: the OCR results (with the page on which
\* recognition threw, 0 for none) and the error caught
NewLocals == [ocrResults |-> Null, threwOn |-> 0, error |-> Null]

\* a throw inside the try block of processDocument: control moves to catch,
\* the locals of the try block go out of scope
Throw(j, msg) ==
  /\ pc' = [pc EXCEPT ![j] = "catchJob"]
  /\ locals' = [locals EXCEPT ![j] = [NewLocals EXCEPT !.error = Some(msg)]]

\* ProcessingJobModel.create (status WAITING, progress 0, error null)
NewJob(d, opts) ==
  [documentId |-> d, status |-> "WAITING", progress |-> 0, error |-> Null,
   metadata |-> JobMetadata(opts)]

CreateJob(d, opts) ==
  /\ Len(jobs) < MaxJobs
  /\ jobs' = Append(jobs, NewJob(d, opts))
  /\ pc' = Append(pc, "queue")
  /\ locals' = Append(locals, NewLocals)

\* startOCRProcessing, up to the creation of the job
StartOCRProcessing(d, opts) ==
  /\ CreateJob(d, opts)
  /\ UNCHANGED <<source, documents, textChunks>>
  /\ UNCHANGED <<chunkVars, cancelled, ocrVars>>

\* reprocessDocument: reset of the Document, then startOCRProcessing(id)
ReprocessDocument(d) ==
  /\ CreateJob(d, DefaultOptions)
  /\ documents' = [documents EXCEPT ![d] =
                     [@ EXCEPT !.status = "UPLOADED", !.extractedText = Null,
                               !.ocrConfidence = Null]]
  /\ UNCHANGED <<source, textChunks>>
  /\ UNCHANGED <<chunkVars, cancelled, ocrVars>>

\* startOCRProcessing: Document -> QUEUED, then setImmediate(processDocument)
SetQueued(j) ==
  /\ pc[j] = "queue"
  /\ \E ok \in BOOLEAN :
       IF ok
       THEN /\ documents' = [documents EXCEPT ![DocOf(j)] = DocUpdateStatus(@, "QUEUED")]
            /\ Goto(j, "scheduled")
       ELSE /\ Goto(j, "aborted")
            /\ UNCHANGED documents
  /\ UNCHANGED <<source, textChunks, jobs, locals>>
  /\ UNCHANGED <<chunkVars, cancelled, ocrVars>>

\* a ProcessingJobModel.updateStatus(jobId, ACTIVE, {progress}) of the try block
JobProgress(j, at, progress, next) ==
  /\ pc[j] = at
  /\ \E ok \in BOOLEAN :
       IF ok
       THEN /\ jobs' = [jobs EXCEPT ![j] = JobUpdateStatus(@, "ACTIVE", Some(progress), Undefined)]
            /\ Goto(j, next)
            /\ UNCHANGED locals
       ELSE /\ Throw(j, "job update failed")
            /\ UNCHANGED jobs
  /\ UNCHANGED <<source, documents, textChunks>>
  /\ UNCHANGED <<chunkVars, cancelled, ocrVars>>

\* a DocumentModel.updateStatus(documentId, status) of the try block
DocStatus(j, at, status, next, msg) ==
  /\ pc[j] = at
  /\ \E ok \in BOOLEAN :
       IF ok
       THEN /\ documents' = [documents EXCEPT ![DocOf(j)] = DocUpdateStatus(@, status)]
            /\ Goto(j, next)
            /\ UNCHANGED locals
       ELSE /\ Throw(j, msg)
            /\ UNCHANGED documents
  /\ UNCHANGED <<source, textChunks, jobs>>
  /\ UNCHANGED <<chunkVars, cancelled, ocrVars>>

\* processDocument: job -> ACTIVE, progress 0
SetActive(j) == JobProgress(j, "scheduled", 0, "setProcessing")

\* processDocument: Document -> PROCESSING
SetProcessing(j) ==
  DocStatus(j, "setProcessing", "PROCESSING", "download", "document update failed")

\* processDocument: DocumentModel.findById and storage.downloadFile, then
\* job progress 10
Download(j) ==
  /\ pc[j] = "download"
  /\ \/ Throw(j, "storage read failed") /\ UNCHANGED jobs
     \/ Throw(j, "job update failed") /\ UNCHANGED jobs
     \/ /\ jobs' = [jobs EXCEPT ![j] = JobUpdateStatus(@, "ACTIVE", Some(10), Undefined)]
        /\ Goto(j, "ocr")
        /\ UNCHANGED locals
  /\ UNCHANGED <<source, documents, textChunks>>
  /\ UNCHANGED <<chunkVars, cancelled, ocrVars>>

\* OCRService.extractTextFromBuffer on the source of a document. A PDF goes
\* through the page loop of processPDF, where recognition may throw on a
\* page k (0: on none); an image is recognized directly.
Extractions(src) ==
  IF src.mimeType = "application/pdf"
  THEN {[ocrResults |-> processPDF(src.pages, k), threwOn |-> k] : k \in 0..src.pages}
  ELSE {[ocrResults |-> <<OCRResult(1)>>, threwOn |-> 0]}

\* processDocument: ocrService.extractTextFromBuffer, then job progress 70.
\* The call throws when recognition of an image throws, and before any page
\* (buffer, temporary file, worker not initialized).
ExtractText(j) ==
  /\ pc[j] = "ocr"
  /\ \/ Throw(j, "OCR failed") /\ UNCHANGED jobs
     \/ Throw(j, "job update failed") /\ UNCHANGED jobs
     \/ \E x \in Extractions(source[DocOf(j)]) :
          /\ locals' = [locals EXCEPT ![j].ocrResults = Some(x.ocrResults),
                                      ![j].threwOn = x.threwOn]
          /\ jobs' = [jobs EXCEPT ![j] = JobUpdateStatus(@, "ACTIVE", Some(70), Undefined)]
          /\ Goto(j, "saveText")
  /\ UNCHANGED <<source, documents, textChunks>>
  /\ UNCHANGED <<chunkVars, cancelled, ocrVars>>

\* processDocument: DocumentModel.update with the aggregated text
SaveText(j) ==
  /\ pc[j] = "saveText"
  /\ \E ok \in BOOLEAN :
       IF ok
       THEN /\ documents' = [documents EXCEPT ![DocOf(j)] =
                   [@ EXCEPT !.extractedText = Some(JoinPages(The(locals[j].ocrResults))),
                             !.ocrConfidence = Some(AverageConfidence(The(locals[j].ocrResults))),
                             !.status = "EXTRACTING_TEXT"]]
            /\ Goto(j, "progress80")
            /\ UNCHANGED locals
       ELSE /\ Throw(j, "saving the text failed")
            /\ UNCHANGED documents
  /\ UNCHANGED <<source, textChunks, jobs>>
  /\ UNCHANGED <<chunkVars, cancelled, ocrVars>>

\* if (metadata?.enableChunking)
ChunkingEnabled_always(meta) == TRUE

ChunkingEnabled(meta) == meta.enableChunking

\* the locals when processDocument has returned or died, and once the OCR
\* results are no longer read
Ended(j) == locals' = [locals EXCEPT ![j] = NewLocals]

\* processDocument: job progress 80, then the branch on enableChunking
Progress80(j) ==
  /\ pc[j] = "progress80"
  /\ \E ok \in BOOLEAN :
       IF ok
       THEN /\ jobs' = [jobs EXCEPT ![j] = JobUpdateStatus(@, "ACTIVE", Some(80), Undefined)]
            /\ IF ChunkingEnabled(jobs[j].metadata)
               THEN Goto(j, "chunkDelete") /\ UNCHANGED locals
               ELSE Goto(j, "jobCompleted") /\ Ended(j)
       ELSE /\ Throw(j, "job update failed")
            /\ UNCHANGED jobs
  /\ UNCHANGED <<source, documents, textChunks>>
  /\ UNCHANGED <<chunkVars, cancelled, ocrVars>>

\* the chunks chunkText(document.id, extractedText, {...}) computes
RunChunks(j) ==
  chunkText(JoinPages(The(locals[j].ocrResults)),
            OrDefault(Some(jobs[j].metadata.chunkSize), 1000),
            OrDefault(Some(jobs[j].metadata.chunkOverlap), 200))

\* saveChunks: TextChunkModel.deleteByDocumentId
ChunkDelete(j) ==
  /\ pc[j] = "chunkDelete"
  /\ \E ok \in BOOLEAN :
       IF ok
       THEN /\ textChunks' = [textChunks EXCEPT ![DocOf(j)] = {}]
            /\ Goto(j, "chunkInsert")
            /\ UNCHANGED locals
       ELSE /\ Throw(j, "chunking failed")
            /\ UNCHANGED textChunks
  /\ UNCHANGED <<source, documents, jobs>>
  /\ UNCHANGED <<chunkVars, cancelled, ocrVars>>

\* saveChunks: TextChunkModel.createMany
ChunkInsert(j) ==
  /\ pc[j] = "chunkInsert"
  /\ \E ok \in BOOLEAN :
       IF ok
       THEN /\ textChunks' = [textChunks EXCEPT ![DocOf(j)] = CreateMany(@, RunChunks(j))]
            /\ Goto(j, "chunkStatus")
            /\ Ended(j)
       ELSE /\ Throw(j, "chunking failed")
            /\ UNCHANGED textChunks
  /\ UNCHANGED <<source, documents, jobs>>
  /\ UNCHANGED <<chunkVars, cancelled, ocrVars>>

\* chunkText: Document -> CHUNKING
ChunkStatus(j) ==
  DocStatus(j, "chunkStatus", "CHUNKING", "jobCompleted", "chunking failed")

\* processDocument: job -> COMPLETED
JobCompleted(j) ==
  /\ pc[j] = "jobCompleted"
  /\ \E ok \in BOOLEAN :
       IF ok
       THEN /\ jobs' = [jobs EXCEPT ![j] = JobUpdateStatus(@, "COMPLETED", Some(100), Undefined)]
            /\ Goto(j, "docCompleted")
            /\ UNCHANGED locals
       ELSE /\ Throw(j, "job update failed")
            /\ UNCHANGED jobs
  /\ UNCHANGED <<source, documents, textChunks>>
  /\ UNCHANGED <<chunkVars, cancelled, ocrVars>>

\* processDocument: Document -> COMPLETED, end of the try block
DocCompleted(j) ==
  /\ pc[j] = "docCompleted"
  /\ \E ok \in BOOLEAN :
       IF ok
       THEN /\ documents' = [documents EXCEPT ![DocOf(j)] = DocUpdateStatus(@, "COMPLETED")]
            /\ Goto(j, "done")
            /\ Ended(j)
       ELSE /\ Throw(j, "document update failed")
            /\ UNCHANGED documents
  /\ UNCHANGED <<source, textChunks, jobs>>
  /\ UNCHANGED <<chunkVars, cancelled, ocrVars>>

\* catch: job -> FAILED with the message of the caught error; a throw here
\* leaves processDocument
CatchJob(j) ==
  /\ pc[j] = "catchJob"
  /\ \E ok \in BOOLEAN :
       IF ok
       THEN /\ jobs' = [jobs EXCEPT ![j] = JobUpdateStatus(@, "FAILED", Undefined, locals[j].error)]
            /\ Goto(j, "catchDoc")
            /\ UNCHANGED locals
       ELSE /\ Goto(j, "crashed")
            /\ Ended(j)
            /\ UNCHANGED jobs
  /\ UNCHANGED <<source, documents, textChunks>>
  /\ UNCHANGED <<chunkVars, cancelled, ocrVars>>

\* the handler clearing the chunk set of the document as well
CatchDoc_dropChunks(j) ==
  /\ pc[j] = "catchDoc"
  /\ documents' = [documents EXCEPT ![DocOf(j)] = DocUpdateStatus(@, "FAILED")]
  /\ textChunks' = [textChunks EXCEPT ![DocOf(j)] = {}]
  /\ Goto(j, "done")
  /\ Ended(j)
  /\ UNCHANGED <<source, jobs>>
  /\ UNCHANGED <<chunkVars, cancelled, ocrVars>>

\* catch: Document -> FAILED
CatchDoc(j) ==
  /\ pc[j] = "catchDoc"
  /\ \E ok \in BOOLEAN :
       IF ok
       THEN /\ documents' = [documents EXCEPT ![DocOf(j)] = DocUpdateStatus(@, "FAILED")]
            /\ Goto(j, "done")
       ELSE /\ Goto(j, "crashed")
            /\ UNCHANGED documents
  /\ Ended(j)
  /\ UNCHANGED <<source, textChunks, jobs>>
  /\ UNCHANGED <<chunkVars, cancelled, ocrVars>>

\* POST /api/jobs/:id/cancel: the route logs the request and answers
\* "Job cancelled successfully" with status FAILED; it reads and writes no
\* job and no document
Cancel(j) ==
  /\ cancelled' = cancelled \cup {j}
  /\ UNCHANGED <<source, documents, textChunks, jobs, pc, locals>>
  /\ UNCHANGED <<chunkVars, ocrVars>>

Next ==
  \/ \E d \in Docs, opts \in UploadOptions : StartOCRProcessing(d, opts)
  \/ \E d \in Docs : ReprocessDocument(d)
  \/ \E j \in JobIds : SetQueued(j)
  \/ \E j \in JobIds : SetActive(j)
  \/ \E j \in JobIds : SetProcessing(j)
  \/ \E j \in JobIds : Download(j)
  \/ \E j \in JobIds : ExtractText(j)
  \/ \E j \in JobIds : SaveText(j)
  \/ \E j \in JobIds : Progress80(j)
  \/ \E j \in JobIds : ChunkDelete(j)
  \/ \E j \in JobIds : ChunkInsert(j)
  \/ \E j \in JobIds : ChunkStatus(j)
  \/ \E j \in JobIds : JobCompleted(j)
  \/ \E j \in JobIds : DocCompleted(j)
  \/ \E j \in JobIds : CatchJob(j)
  \/ \E j \in JobIds : CatchDoc(j)

Spec == Init /\ [][Next]_vars

\* the pipeline when a run is started only while no other run of the
\* document is in flight
NextSequential ==
  \/ \E d \in Docs, opts \in UploadOptions :
       RunsInFlight(d) = {} /\ StartOCRProcessing(d, opts)
  \/ \E d \in Docs : RunsInFlight(d) = {} /\ ReprocessDocument(d)
  \/ \E j \in JobIds : SetQueued(j)
  \/ \E j \in JobIds : SetActive(j)
  \/ \E j \in JobIds : SetProcessing(j)
  \/ \E j \in JobIds : Download(j)
  \/ \E j \in JobIds : ExtractText(j)
  \/ \E j \in JobIds : SaveText(j)
  \/ \E j \in JobIds : Progress80(j)
  \/ \E j \in JobIds : ChunkDelete(j)
  \/ \E j \in JobIds : ChunkInsert(j)
  \/ \E j \in JobIds : ChunkStatus(j)
  \/ \E j \in JobIds : JobCompleted(j)
  \/ \E j \in JobIds : DocCompleted(j)
  \/ \E j \in JobIds : CatchJob(j)
  \/ \E j \in JobIds : CatchDoc(j)

SpecSequential == Init /\ [][NextSequential]_vars

\* the pipeline of a document that is processed once after its upload and
\* from then on only reprocessed, each time after the run before has ended
NextReprocess ==
  \/ \E d \in Docs, opts \in UploadOptions :
       jobs = <<>> /\ StartOCRProcessing(d, opts)
  \/ \E d \in Docs : jobs # <<>> /\ RunsInFlight(d) = {} /\ ReprocessDocument(d)
  \/ \E j \in JobIds : SetQueued(j)
  \/ \E j \in JobIds : SetActive(j)
  \/ \E j \in JobIds : SetProcessing(j)
  \/ \E j \in JobIds : Download(j)
  \/ \E j \in JobIds : ExtractText(j)
  \/ \E j \in JobIds : SaveText(j)
  \/ \E j \in JobIds : Progress80(j)
  \/ \E j \in JobIds : ChunkDelete(j)
  \/ \E j \in JobIds : ChunkInsert(j)
  \/ \E j \in JobIds : ChunkStatus(j)
  \/ \E j \in JobIds : JobCompleted(j)
  \/ \E j \in JobIds : DocCompleted(j)
  \/ \E j \in JobIds : CatchJob(j)
  \/ \E j \in JobIds : CatchDoc(j)

SpecReprocess == Init /\ [][NextReprocess]_vars

\* the pipeline with sequential runs and the cancel route
NextCancel ==
  \/ \E d \in Docs, opts \in UploadOptions :
       RunsInFlight(d) = {} /\ StartOCRProcessing(d, opts)
  \/ \E d \in Docs : RunsInFlight(d) = {} /\ ReprocessDocument(d)
  \/ \E j \in JobIds : Cancel(j)
  \/ \E j \in JobIds : SetQueued(j)
  \/ \E j \in JobIds : SetActive(j)
  \/ \E j \in JobIds : SetProcessing(j)
  \/ \E j \in JobIds : Download(j)
  \/ \E j \in JobIds : ExtractText(j)
  \/ \E j \in JobIds : SaveText(j)
  \/ \E j \in JobIds : Progress80(j)
  \/ \E j \in JobIds : ChunkDelete(j)
  \/ \E j \in JobIds : ChunkInsert(j)
  \/ \E j \in JobIds : ChunkStatus(j)
  \/ \E j \in JobIds : JobCompleted(j)
  \/ \E j \in JobIds : DocCompleted(j)
  \/ \E j \in JobIds : CatchJob(j)
  \/ \E j \in JobIds : CatchDoc(j)

SpecCancel == Init /\ [][NextCancel]_vars

\* ------------------------------------------------------------------------
\* Properties of the pipeline
\* ------------------------------------------------------------------------
\* the Document status changes a run makes after QUEUED, in order
RunOrder(chunking) ==
  {<<"QUEUED", "PROCESSING">>, <<"PROCESSING", "EXTRACTING_TEXT">>}
    \cup (IF chunking
          THEN {<<"EXTRACTING_TEXT", "CHUNKING">>, <<"CHUNKING", "COMPLETED">>}
          ELSE {<<"EXTRACTING_TEXT", "COMPLETED">>})

\* C1: while no other run of the document is in flight, the Document
\* statuses a run writes are QUEUED, PROCESSING, EXTRACTING_TEXT, CHUNKING
\* (only with chunking enabled), COMPLETED in this order, each at most once,
\* cut short by at most one change to FAILED out of a status that is not
\* terminal.
C1_StatusOrder ==
  [][\A j \in JobIds :
       LET old == documents[DocOf(j)].status
           new == documents'[DocOf(j)].status
       IN  (pc'[j] # pc[j] /\ new # old) =>
             IF pc[j] = "queue" THEN new = "QUEUED"
             ELSE \/ new = "FAILED" /\ old \notin TerminalStatuses
                  \/ <<old, new>> \in RunOrder(jobs[j].metadata.enableChunking)]_vars

C1_Witness ==
  \E j \in JobIds :
    /\ pc[j] = "done"
    /\ jobs[j].status = "COMPLETED"
    /\ jobs[j].metadata.enableChunking
    /\ documents[DocOf(j)].status = "COMPLETED"
    /\ textChunks[DocOf(j)] # {}

\* C2: a Document status that is COMPLETED, FAILED or CANCELLED changes only
\* by the writes of a reprocess or start call (UPLOADED, QUEUED), never by
\* a step of a run already under way.
C2_TerminalIsFinal ==
  [][\A d \in Docs :
       (documents[d].status \in TerminalStatuses
          /\ documents'[d].status # documents[d].status)
         => documents'[d].status \in {"UPLOADED", "QUEUED"}]_vars

\* the errors of the storage read, the OCR extraction, the saving of the
\* aggregated text and the chunking step
PipelineStepErrors ==
  {Some("storage read failed"), Some("OCR failed"),
   Some("saving the text failed"), Some("chunking failed")}

C4_JobTransitions ==
  [][\A j \in JobIds :
       jobs'[j].status # jobs[j].status =>
         <<jobs[j].status, jobs'[j].status>> \in
           {<<"WAITING", "ACTIVE">>, <<"ACTIVE", "COMPLETED">>, <<"ACTIVE", "FAILED">>}]_vars

\* C5: when recognition throws on page k of a PDF of n pages, the results
\* the extraction returns are exactly the other n - 1 pages.
C5_PageFailureIsolated ==
  \A j \in JobIds :
    LET src == source[DocOf(j)]
    IN  (locals[j].ocrResults # Null /\ src.mimeType = "application/pdf"
           /\ locals[j].threwOn \in 1..src.pages)
          => {r.pageNumber : r \in Range(The(locals[j].ocrResults))}
               = (1..src.pages) \ {locals[j].threwOn}

\* C6: an extraction that returns has recognized at least one page, and no
\* Document is COMPLETED with the confidence of an empty result.
C6_NoEmptyExtraction ==
  /\ \A j \in JobIds :
       locals[j].ocrResults # Null => The(locals[j].ocrResults) # <<>>
  /\ \A d \in Docs :
       (documents[d].status = "COMPLETED" /\ documents[d].ocrConfidence # Null)
         => The(documents[d].ocrConfidence).count > 0

\* ------------------------------------------------------------------------
\* Properties of the split loop
\* ------------------------------------------------------------------------
\* the chunk the loop derives from window w
WindowChunk(w) == Trim(Substring(text, w[1], w[2]))

\* C7: with a valid configuration no emitted chunk is longer than chunkSize
\* characters.
C7_ChunkWithinSize ==
  ValidConfig => \A i \in 1..Len(chunks) : Len(chunks[i]) <= chunkSize

\* C8: Scenario A ends with exactly 3 chunks, each of at most 1000
\* characters, each window after the first starting at or before the
\* previous window's end minus 50 (chunks are only ever appended, so the
\* count may at no point exceed 3).
C8_ScenarioA ==
  /\ Len(chunks) <= 3
  /\ cpc = "done" => Len(chunks) = 3
  /\ \A i \in 1..Len(chunks) : Len(chunks[i]) <= 1000
  /\ \A i \in 1..(Len(windows) - 1) : windows[i + 1][1] <= windows[i][2] - 50

\* C9: with a valid configuration each window starts strictly after the
\* window before it, and shares at most chunkOverlap characters with it.
C9_OverlapBound ==
  ValidConfig =>
    \A i \in 1..(Len(windows) - 1) :
      /\ windows[i + 1][1] > windows[i][1]
      /\ windows[i][2] - windows[i + 1][1] <= chunkOverlap

C9_Witness ==
  /\ ValidConfig
  /\ cpc = "done"
  /\ chunkOverlap > 0
  /\ \E i \in 1..(Len(windows) - 1) :
       /\ windows[i][2] < Len(text)
       /\ windows[i][2] - windows[i + 1][1] = chunkOverlap

\* C10: with a valid configuration the windows cover the text without a
\* gap: the first starts at 0, each next one starts at or before the end of
\* the one before it, the last ends at the end of the text, and every
\* character that is no whitespace lies in an emitted chunk.
C10_Coverage ==
  ValidConfig =>
    /\ windows # <<>> => windows[1][1] = 0
    /\ \A i \in 1..(Len(windows) - 1) : windows[i + 1][1] <= windows[i][2]
    /\ cpc = "done" /\ text # <<>> =>
         /\ windows # <<>>
         /\ windows[Len(windows)][2] = Len(text)
         /\ \A p \in 0..(Len(text) - 1) :
              ~IsWs(CharAt(text, p)) =>
                \E i \in 1..Len(windows) :
                  /\ windows[i][1] <= p
                  /\ p < windows[i][2]
                  /\ WindowChunk(windows[i]) \in Range(chunks)

C10_Witness ==
  /\ ValidConfig
  /\ cpc = "done"
  /\ Len(windows) >= 2
  /\ chunkOverlap = 0
  /\ \E i \in 1..Len(windows) :
       Len(WindowChunk(windows[i])) < windows[i][2] - windows[i][1]

\* C11: a call with chunkSize 0 or a negative chunkSize fails: it never
\* returns, and it hands out no chunk.
C11_InvalidConfigRejected ==
  chunkSize <= 0 => (cpc # "done" /\ chunks = <<>>)

\* ------------------------------------------------------------------------
\* Properties of the chunk set and of the Document and job fields
\* ------------------------------------------------------------------------
\* C12: the chunk set of a document changes only as a whole: every step
\* that changes it leaves the complete set of the chunking pass of a run
\* that is in saveChunks, never an emptied or partly replaced set.
C12_AllOrNothing ==
  [][\A d \in Docs :
       textChunks'[d] # textChunks[d] =>
         \E j \in JobIds :
           /\ DocOf(j) = d
           /\ pc[j] \in {"chunkDelete", "chunkInsert"}
           /\ textChunks'[d] = Range(RunChunks(j))]_vars

\* the errors of the storage read and of the OCR extraction
EarlyStepErrors == {Some("storage read failed"), Some("OCR failed")}

\* positions of a run before the chunking step
BeforeChunkingPcs ==
  {"queue", "scheduled", "setProcessing", "download", "ocr", "saveText"}

C14_ReprocessReplaces ==
  \A j \in JobIds :
    LET d == DocOf(j)
    IN  (j > 1 /\ pc[j] = "done" /\ jobs[j].status = "COMPLETED"
           /\ (\A k \in 1..(j - 1) : jobs[k].status = "COMPLETED")
           /\ documents[d].status = "COMPLETED"
           /\ documents[d].extractedText \notin {Null, Some(<<>>)})
          => \/ textChunks[d] = {}
             \/ textChunks[d] =
                  Range(chunkText(The(documents[d].extractedText),
                                  jobs[j].metadata.chunkSize,
                                  jobs[j].metadata.chunkOverlap))

\* C15: a Document holds an extractedText (here: one that is not empty)
\* only in CHUNKING, COMPLETED or FAILED, never in UPLOADED, QUEUED,
\* PROCESSING or EXTRACTING_TEXT, and it holds one whenever it is in
\* CHUNKING or COMPLETED.
C15_TextIffExtracted ==
  \A d \in Docs :
    /\ documents[d].extractedText \notin {Null, Some(<<>>)}
         => documents[d].status \in {"CHUNKING", "COMPLETED", "FAILED"}
    /\ documents[d].status \in {"CHUNKING", "COMPLETED"}
         => documents[d].extractedText # Null

\* C16: a Document has a processedAt only while its status is COMPLETED.
C16_ProcessedAtOnlyCompleted ==
  \A d \in Docs :
    documents[d].processedAt # Null => documents[d].status = "COMPLETED"

\* progress values a caller may pass with an update (none, or a number)
ProgressArgs == {Undefined, Some(0), Some(80), Some(100)}

\* C17: while a job stays ACTIVE its progress never decreases and moves
\* through 0, 10, 70, 80 in this order; a job that is COMPLETED has
\* progress 100, and the COMPLETED update yields 100 whatever progress is
\* passed with it.
C17_ProgressMonotone ==
  [][\A j \in JobIds :
       /\ (jobs[j].status = "ACTIVE" /\ jobs'[j].status = "ACTIVE")
            => \/ jobs'[j].progress = jobs[j].progress
               \/ <<jobs[j].progress, jobs'[j].progress>>
                    \in {<<0, 10>>, <<10, 70>>, <<70, 80>>}
       /\ jobs'[j].status = "COMPLETED" => jobs'[j].progress = 100
       /\ \A p \in ProgressArgs :
            JobUpdateStatus(jobs[j], "COMPLETED", p, Undefined).progress = 100]_vars

\* one job has completed, a later one is ACTIVE past the extraction
C17_Witness ==
  \E j, k \in JobIds :
    /\ jobs[j].status = "COMPLETED"
    /\ jobs[j].progress = 100
    /\ jobs[k].status = "ACTIVE"
    /\ jobs[k].progress = 80

\* C18: the cancellation of a job that is WAITING or ACTIVE moves the job
\* to FAILED, and a job that has been cancelled does not go on to
\* COMPLETED.
C18_CancelStopsRun ==
  [][\A j \in JobIds :
       /\ (j \in cancelled' \ cancelled /\ jobs[j].status \in {"WAITING", "ACTIVE"})
            => jobs'[j].status = "FAILED"
       /\ (j \in cancelled /\ jobs[j].status # "COMPLETED")
            => jobs'[j].status # "COMPLETED"]_vars

\* ------------------------------------------------------------------------
\* Properties of concurrent runs
\* ------------------------------------------------------------------------
\* config.processing.maxConcurrentJobs = parseInt(MAX_CONCURRENT_JOBS || '5'):
\* the limits an installation may configure, the default 5 among them
maxConcurrentJobs == 1..5

\* the runs between their ACTIVE update and their COMPLETED / FAILED update
ActiveRuns == {j \in JobIds : jobs[j].status = "ACTIVE" /\ pc[j] \notin EndedPcs}

\* C19: whatever limit is configured, the number of runs between their
\* ACTIVE update and their COMPLETED / FAILED update does not exceed it.
C19_BoundedConcurrency ==
  \A limit \in maxConcurrentJobs : Cardinality(ActiveRuns) <= limit

\* C20: a run writes a Document only while no other run of that Document
\* is between its first write and its end: the writes of two runs of one
\* Document do not interleave.
C20_SingleWriter ==
  [][\A j, k \in JobIds :
       (j # k /\ DocOf(j) = DocOf(k) /\ pc'[j] # pc[j]
          /\ documents'[DocOf(j)] # documents[DocOf(j)])
         => pc[k] \in EndedPcs \cup {"queue"}]_vars

\* ------------------------------------------------------------------------
\* Properties of the end of a run and of the aggregated confidence
\* ------------------------------------------------------------------------
\* C22: once the runs of a document have all returned or died, the
\* Document is not left in QUEUED, PROCESSING, EXTRACTING_TEXT or CHUNKING:
\* a run that was started ends with its Document COMPLETED or FAILED,
\* whichever call failed.
C22_NoStuckDocument ==
  \A d \in Docs :
    (RunsInFlight(d) = {} /\ \E j \in JobIds : DocOf(j) = d)
      => documents[d].status
           \notin {"QUEUED", "PROCESSING", "EXTRACTING_TEXT", "CHUNKING"}

\* the confidence the pages of a source of n pages average to when
\* recognition failed on page k (0: on none): every page counts, the
\* failed one with 0
RECURSIVE ExpectedSum(_, _)
ExpectedSum(n, k) ==
  IF n = 0 THEN 0
  ELSE (IF n = k THEN 0 ELSE PageConfidence(n)) + ExpectedSum(n - 1, k)

\* C23: the confidence saved on the Document is the mean over all pages of
\* the source, a page that was not recognized counting as 0: the saved sum
\* and divisor are those of all pages (for confidences 90, 0, 80 the sum
\* 170 over 3).
C23_MeanOverAllPages ==
  \A j \in JobIds :
    LET d == DocOf(j)
        n == source[d].pages
    IN  (pc[j] = "progress80" /\ n >= 1)
          => documents[d].ocrConfidence =
               Some([sum |-> ExpectedSum(n, locals[j].threwOn), count |-> n])

\* ------------------------------------------------------------------------
\* Properties of the chunk indices and of the chunk options
\* ------------------------------------------------------------------------
\* C25: the chunkIndex values of the chunks of a document are exactly
\* 0..N-1, each once, also when overlapping runs chunk it; every chunk
\* chunkText hands to saveChunks is non-empty and indexed by its position.
C25_ContiguousIndices ==
  /\ \A d \in Docs :
       /\ {r.chunkIndex : r \in textChunks[d]} = 0..(Cardinality(textChunks[d]) - 1)
       /\ \A r, q \in textChunks[d] : r.chunkIndex = q.chunkIndex => r = q
  /\ \A j \in JobIds :
       pc[j] \in {"chunkDelete", "chunkInsert"} =>
         LET c == RunChunks(j)
         IN  \A i \in 1..Len(c) : c[i].content # <<>> /\ c[i].chunkIndex = i - 1

\* two runs that overlapped have both inserted, and the chunks are those
\* of neither run alone
C25_Witness ==
  \E d \in Docs :
    /\ Cardinality(textChunks[d]) >= 2
    /\ \E j, k \in JobIds :
         /\ j # k
         /\ DocOf(j) = d
         /\ DocOf(k) = d
         /\ pc[j] = "chunkStatus"
         /\ pc[k] = "chunkStatus"

\* the options processDocument passes to chunkText for job j
ChunkSizeUsed(j) == OrDefault(Some(jobs[j].metadata.chunkSize), 1000)

ChunkOverlapUsed(j) == OrDefault(Some(jobs[j].metadata.chunkOverlap), 200)

\* the valid chunk options a caller may have passed for a run with chunking
ValidUploadOptions ==
  {o \in UploadOptions :
     /\ o.enableChunking = Some(TRUE)
     /\ o.chunkSize # Undefined
     /\ o.chunkOverlap # Undefined
     /\ The(o.chunkSize) > 0
     /\ The(o.chunkOverlap) >= 0
     /\ The(o.chunkOverlap) < The(o.chunkSize)}

\* C28: a run with chunking chunks with the chunkSize and chunkOverlap of
\* the (valid) options it was requested with, overlap 0 included, and the
\* overlap it uses is smaller than the chunkSize it uses.
C28_OptionsUsedAsGiven ==
  \A j \in JobIds :
    jobs[j].metadata.enableChunking =>
      /\ \E o \in ValidUploadOptions :
           /\ ChunkSizeUsed(j) = The(o.chunkSize)
           /\ ChunkOverlapUsed(j) = The(o.chunkOverlap)
      /\ ChunkOverlapUsed(j) < ChunkSizeUsed(j)

\* ------------------------------------------------------------------------
\* Properties of the split loop: progress and window ends
\* ------------------------------------------------------------------------
\* C29: for every text and every chunkSize and chunkOverlap, valid or not,
\* the cursor moves on by at least one character in every iteration, so
\* the loop makes at most len(text) iterations.
C29_CursorAdvances ==
  /\ \A i \in 1..(Len(windows) - 1) : windows[i + 1][1] >= windows[i][1] + 1
  /\ windows # <<>> => start >= windows[Len(windows)][1] + 1
  /\ Len(windows) <= Len(text)

\* the loop has ended after several iterations with an overlap that is not
\* smaller than the chunk size
C29_Witness ==
  /\ cpc = "done"
  /\ chunkSize > 0
  /\ chunkOverlap >= chunkSize
  /\ Len(windows) >= 3

\* C30: with a valid configuration and an overlap above 0, each window
\* ends strictly after the window before it (so only the last one ends at
\* the end of the text, and no chunk is a suffix of the chunk before it).
C30_EndsIncrease ==
  (ValidConfig /\ chunkOverlap > 0) =>
    \A i \in 1..(Len(windows) - 1) : windows[i + 1][2] > windows[i][2]

\* ------------------------------------------------------------------------
\* Properties of the break points of chunkText
\* ------------------------------------------------------------------------
\* the input is two paragraphs p1 and p2, each without a line break and
\* without whitespace at its ends, separated by one blank line at offset i
TwoParagraphs(i) ==
  LET p1 == SubSeq(input, 1, i)
      p2 == SubSeq(input, i + 3, Len(input))
  IN  /\ i >= 1
      /\ i + 3 <= Len(input)
      /\ input[i + 1] = "\n"
      /\ input[i + 2] = "\n"
      /\ \A k \in 1..Len(input) : input[k] = "\n" => k \in {i + 1, i + 2}
      /\ p1 = Trim(p1)
      /\ p2 = Trim(p2)

\* C26: with preserveParagraphs, when the input is two paragraphs
\* separated by a blank line, the blank line lies after the start and not
\* after the candidate end of the first window, and the candidate lies
\* before the end of the text, then the first chunk ends at the blank line:
\* it is the first paragraph, whatever sentence or word boundary follows.
C26_ParagraphBreakFirst ==
  (cpc # "preprocess" /\ options.preserveParagraphs /\ windows # <<>>) =>
    \A i \in 1..Len(input) :
      (TwoParagraphs(i) /\ i <= chunkSize /\ chunkSize < Len(text))
        => WindowChunk(windows[1]) = SubSeq(input, 1, i)

\* ------------------------------------------------------------------------
\* OCRService: extractTextFromBuffer calls on one instance.  Every call of
\* the model passes a PDF buffer of its own document (document c for call c)
\* ------------------------------------------------------------------------
OcrLanguages == {"eng", "fra"}

\* OCROptions.language
LanguageOptions == {Undefined} \cup {Some(l) : l \in OcrLanguages}

\* the values of Date.now() that name the temporary copies
Clock == 1..2

\* the files of temp/ocr with the given name (at most one)
FileNamed(name) == {f \in tempFiles : f.name = name}

\* fs.writeFile and pdf2pic's image write: the file of that name is replaced
WriteFile(files, f) == {g \in files : g.name # f.name} \cup {f}

\* fs.unlink
Unlink(files, name) == {g \in files : g.name # name}

Rmdir_keep(files) == files

\* fs.rmdir(tempDir, { recursive: true }): the files that are left
Rmdir(files) == {}

SetCall(c, r) == calls' = [calls EXCEPT ![c] = r]

\* a step of call c throws without the file system or the worker at fault
Fault(c, step, next) ==
  SetCall(c, [calls[c] EXCEPT !.faults = @ \cup {step}, !.pc = next])

\* the constructor's initializeWorker: createWorker, loadLanguage('eng'),
\* initialize('eng'), isInitialized = true
InitializeWorker ==
  /\ worker = Null
  /\ worker' = Some("eng")
  /\ UNCHANGED <<tempDir, tempFiles, calls>>
  /\ UNCHANGED <<chunkVars, dbVars>>

\* extractTextFromBuffer up to the write of the temporary copy: mkdir, and
\* the name temp_<Date.now()>.pdf
ExtractTextFromBuffer(c, lang, n, ms) ==
  /\ calls[c].pc = "idle"
  /\ tempDir' = TRUE
  /\ SetCall(c, [NoCall EXCEPT !.pc = "writeFile", !.language = lang, !.pages = n,
                               !.tempFile = <<"temp", ms>>, !.pageNumber = 1])
  /\ UNCHANGED <<tempFiles, worker>>
  /\ UNCHANGED <<chunkVars, dbVars>>

\* fs.writeFile(tempFile, buffer), then processDocument's check of the worker
WriteTempFile(c) ==
  /\ calls[c].pc = "writeFile"
  /\ \/ /\ Fault(c, "writeFile", "unlinkTemp")
        /\ UNCHANGED tempFiles
     \/ /\ ~tempDir
        /\ SetCall(c, [calls[c] EXCEPT !.pc = "unlinkTemp", !.outcome = "threw"])
        /\ UNCHANGED tempFiles
     \/ /\ tempDir
        /\ tempFiles' = WriteFile(tempFiles, [name |-> calls[c].tempFile, creator |-> c,
                                              doc |-> c, page |-> 0])
        /\ IF worker = Null
             THEN SetCall(c, [calls[c] EXCEPT !.pc = "unlinkTemp",
                                              !.outcome = "notInitialized"])
             ELSE SetCall(c, [calls[c] EXCEPT !.pc = "mkdir"])
  /\ UNCHANGED <<tempDir, worker>>
  /\ UNCHANGED <<chunkVars, dbVars>>

\* processPDF: fs.mkdir(tempDir, { recursive: true })
ProcessPDFMkdir(c) ==
  /\ calls[c].pc = "mkdir"
  /\ tempDir' = TRUE
  /\ SetCall(c, [calls[c] EXCEPT !.pc = "convert"])
  /\ UNCHANGED <<tempFiles, worker>>
  /\ UNCHANGED <<chunkVars, dbVars>>

\* processImage sets the language only when one other than eng is given
NeedsLanguage(c) == calls[c].language # Undefined /\ The(calls[c].language) # "eng"

\* convert(pageNumber): renders the page of the file at filePath into
\* temp/ocr/page.<pageNumber>.png; the loop ends when there is no such page
\* or the conversion throws
ConvertPage(c) ==
  LET src == FileNamed(calls[c].tempFile)
      n == calls[c].pageNumber
      image == <<"page", n>>
  IN
  /\ calls[c].pc = "convert"
  /\ \/ /\ Fault(c, "convert", "rmdir")
        /\ UNCHANGED tempFiles
     \/ /\ \/ src = {}
           \/ ~tempDir
           \/ src # {} /\ n > calls[The(src).doc].pages
        /\ SetCall(c, [calls[c] EXCEPT !.pc = "rmdir"])
        /\ UNCHANGED tempFiles
     \/ /\ src # {}
        /\ tempDir
        /\ n <= calls[The(src).doc].pages
        /\ tempFiles' = WriteFile(tempFiles, [name |-> image, creator |-> c,
                                              doc |-> The(src).doc, page |-> n])
        /\ SetCall(c, [calls[c] EXCEPT !.imagePath = image,
                         !.pc = IF NeedsLanguage(c) THEN "setLanguage" ELSE "recognize"])
  /\ UNCHANGED <<tempDir, worker>>
  /\ UNCHANGED <<chunkVars, dbVars>>

\* processImage: worker.loadLanguage(language), worker.initialize(language)
SetLanguage(c) ==
  /\ calls[c].pc = "setLanguage"
  /\ \/ /\ Fault(c, "setLanguage", "rmdir")
        /\ UNCHANGED worker
     \/ /\ worker' = calls[c].language
        /\ SetCall(c, [calls[c] EXCEPT !.pc = "recognize"])
  /\ UNCHANGED <<tempDir, tempFiles>>
  /\ UNCHANGED <<chunkVars, dbVars>>

\* processImage: worker.recognize(imagePath) and results.push; a result
\* records the image that was read and the language the worker had
Recognize(c) ==
  LET img == FileNamed(calls[c].imagePath) IN
  /\ calls[c].pc = "recognize"
  /\ \/ Fault(c, "recognize", "rmdir")
     \/ /\ img = {}
        /\ SetCall(c, [calls[c] EXCEPT !.pc = "rmdir"])
     \/ /\ img # {}
        /\ SetCall(c, [calls[c] EXCEPT
                         !.results = Append(@, [pageNumber |-> calls[c].pageNumber,
                                                doc |-> The(img).doc,
                                                page |-> The(img).page,
                                                language |-> The(worker)]),
                         !.pc = "unlinkImage"])
  /\ UNCHANGED <<tempDir, tempFiles, worker>>
  /\ UNCHANGED <<chunkVars, dbVars>>

\* processPDF: fs.unlink(imagePath), pageNumber++
UnlinkImage(c) ==
  /\ calls[c].pc = "unlinkImage"
  /\ \/ /\ Fault(c, "unlinkImage", "rmdir")
        /\ UNCHANGED tempFiles
     \/ /\ FileNamed(calls[c].imagePath) = {}
        /\ SetCall(c, [calls[c] EXCEPT !.pc = "rmdir"])
        /\ UNCHANGED tempFiles
     \/ /\ FileNamed(calls[c].imagePath) # {}
        /\ tempFiles' = Unlink(tempFiles, calls[c].imagePath)
        /\ SetCall(c, [calls[c] EXCEPT !.pageNumber = @ + 1, !.pc = "convert"])
  /\ UNCHANGED <<tempDir, worker>>
  /\ UNCHANGED <<chunkVars, dbVars>>

\* processPDF's finally: fs.rmdir(tempDir, { recursive: true }), a failure
\* is logged and swallowed; processPDF returns the results
RmdirTemp(c) ==
  /\ calls[c].pc = "rmdir"
  /\ \/ /\ Fault(c, "rmdir", "unlinkTemp")
        /\ UNCHANGED <<tempDir, tempFiles>>
     \/ /\ tempDir' = FALSE
        /\ tempFiles' = Rmdir(tempFiles)
        /\ SetCall(c, [calls[c] EXCEPT !.pc = "unlinkTemp"])
  /\ UNCHANGED worker
  /\ UNCHANGED <<chunkVars, dbVars>>

\* extractTextFromBuffer's finally: fs.unlink(tempFile), a failure is logged
\* and swallowed; the call returns what processDocument returned or threw
UnlinkTemp(c) ==
  LET out == IF calls[c].outcome = "none"
               THEN IF "writeFile" \in calls[c].faults THEN "threw" ELSE "returned"
               ELSE calls[c].outcome
  IN
  /\ calls[c].pc = "unlinkTemp"
  /\ \/ /\ SetCall(c, [calls[c] EXCEPT !.faults = @ \cup {"unlinkTemp"},
                                       !.pc = "done", !.outcome = out])
        /\ UNCHANGED tempFiles
     \/ /\ tempFiles' = Unlink(tempFiles, calls[c].tempFile)
        /\ SetCall(c, [calls[c] EXCEPT !.pc = "done", !.outcome = out])
  /\ UNCHANGED <<tempDir, worker>>
  /\ UNCHANGED <<chunkVars, dbVars>>

InitOCR ==
  /\ input = <<>>
  /\ text = <<>>
  /\ chunkSize = 1
  /\ chunkOverlap = 0
  /\ options = [preserveSentences |-> TRUE, preserveParagraphs |-> TRUE]
  /\ start = 0
  /\ chunks = <<>>
  /\ windows = <<>>
  /\ cpc = "idle"
  /\ PipelineIdle

NextOCR ==
  \/ InitializeWorker
  \/ \E c \in OcrCalls, lang \in LanguageOptions, n \in 1..MaxOcrPages, ms \in Clock :
       ExtractTextFromBuffer(c, lang, n, ms)
  \/ \E c \in OcrCalls : WriteTempFile(c)
  \/ \E c \in OcrCalls : ProcessPDFMkdir(c)
  \/ \E c \in OcrCalls : ConvertPage(c)
  \/ \E c \in OcrCalls : SetLanguage(c)
  \/ \E c \in OcrCalls : Recognize(c)
  \/ \E c \in OcrCalls : UnlinkImage(c)
  \/ \E c \in OcrCalls : RmdirTemp(c)
  \/ \E c \in OcrCalls : UnlinkTemp(c)

SpecOCR == InitOCR /\ [][NextOCR]_vars

\* the pages a call returned: the page number of each result and the image
\* that was recognized for it
PageResults(c) ==
  [k \in 1..Len(calls[c].results) |->
     [pageNumber |-> calls[c].results[k].pageNumber,
      doc |-> calls[c].results[k].doc,
      page |-> calls[c].results[k].page]]

\* the pages of the call's own document, in order
OwnPages(c) ==
  [k \in 1..calls[c].pages |-> [pageNumber |-> k, doc |-> c, page |-> k]]

\* C21: two different documents are fully independent: whatever the other
\* extraction does meanwhile, an extraction in which no step failed by
\* itself returns what it returns alone, the pages of its own document in
\* order
C21_IndependentDocuments ==
  \A c \in OcrCalls :
    (/\ calls[c].pc = "done"
     /\ calls[c].faults = {}
     /\ calls[c].outcome # "notInitialized")
      => /\ calls[c].outcome = "returned"
         /\ PageResults(c) = OwnPages(c)

\* the files left behind by a call's own cleanup calls failing
CleanupFaults == {"rmdir", "unlinkTemp"}

LanguageOf(c) == IF calls[c].language = Undefined THEN "eng" ELSE The(calls[c].language)

\* C27: the OCR engine is stateless across calls: every page of an
\* extraction is recognized with the language of that call's options, eng
\* when omitted
C27_LanguageOfTheCall ==
  \A c \in OcrCalls :
    \A k \in 1..Len(calls[c].results) :
      calls[c].results[k].language = LanguageOf(c)

====
